---- MODULE Spec2Model ----
(***************************************************************************)
(* Model of the benchmark operator charm: the peer status state machine   *)
(* (benchmark/status.py), the charm handlers that drive it                 *)
(* (benchmark/benchmark_charm.py, benchmark/dpbenchmark.py, charm.py), the *)
(* systemd worker handle (benchmark/service.py), the database relation     *)
(* manager (benchmark/relation_manager.py) and the worker service script   *)
(* (templates/osb_svc.py).                                                 *)
(*                                                                         *)
(* Every charm handler runs to completion before the next one starts (one  *)
(* hook at a time), so each handler is one atomic action; the step after   *)
(* it is the end of the dispatch, where the charm object is torn down and  *)
(* its __del__ may run.  The                                               *)
(* peer relation databags live in the Juju controller: a hook reads them   *)
(* as the controller holds them when it runs, and what it writes is there  *)
(* for every hook that runs after it.  A unit that has not yet been told   *)
(* of a change is a unit whose relation-changed hook has not yet run.      *)
(***************************************************************************)
EXTENDS Integers, Sequences, FiniteSets, TLC

\* ------------------------------------------------------------------ bounds
NumUnits == 2
NumCands == 2
MaxDepth == 6

Units == 1..NumUnits

\* the candidate database relations, in the iteration order of self.relations
Cands == 1..NumCands

\* the database relations the charm registers: ["opensearch"]
NumCharmCands == 1

CharmCands == 1..NumCharmCands

\* the call-stack room left to a handler when it starts
Depths == (MaxDepth - 1)..MaxDepth

\* ------------------------------------------------------------------ values
\* DPBenchmarkExecStatus values as stored in the databag
UNSET == "unset"
PREPARED == "prepared"
RUNNING == "running"
STOPPED == "stopped"
ERROR == "error"
DPBenchmarkExecStatus == {UNSET, PREPARED, RUNNING, STOPPED, ERROR}

\* Python None
None == "none"
\* the "status" key is not in the databag
Absent == "absent"

VARIABLES
    relation,   \* the peer relation exists (model.get_relation is not None)
    planned,    \* app.planned_units()
    leader,     \* the unit for which unit.is_leader() holds
    appData,    \* relation.data[app]["status"]
    unitData,   \* relation.data[unit]["status"], per unit
    svc,        \* per unit: service file present, systemd state of the service
    db,         \* per candidate: what model.relations[name] holds
    last,       \* the handler that has just run: its name, unit and result;
                \* op is "idle" between dispatches
    proc        \* the worker service script (templates/osb_svc.py): where
                \* main() is, keep_running, the benchmark child

vars == <<relation, planned, leader, appData, unitData, svc, db, last, proc>>

\* ---------------------------------------------------- benchmark/service.py
\* systemd state of the unit's service
SysStates == {"inactive", "active", "failed"}

is_prepared(w) == w.file

is_running(w) == is_prepared(w) /\ w.sys = "active"

is_failed(w) == is_prepared(w) /\ w.sys = "failed"

is_stopped(w) == is_prepared(w) /\ ~is_running(w) /\ ~is_failed(w)

\* service_restart(svc): the service ends active, or failed when systemd
\* could not start it
service_restart(w, ok) == [w EXCEPT !.sys = IF ok THEN "active" ELSE "failed"]

\* service_stop(svc): the service ends inactive, or stays as it is when
\* systemd could not stop it
service_stop(w, ok) == IF ok THEN [w EXCEPT !.sys = "inactive"] ELSE w

\* run() that restarts the service whatever its state
svc_run_Always(w, ok) == service_restart(w, ok)

svc_run(w, ok) ==
    IF is_stopped(w) \/ is_failed(w) THEN service_restart(w, ok) ELSE w

svc_stop(w, ok) ==
    IF is_running(w) THEN service_stop(w, ok) ELSE w

\* render_service_file writes the unit file
render_service_file(w) == [w EXCEPT !.file = TRUE]

\* unset() that leaves the service file where it is
svc_unset_KeepFile(w, ok) == svc_stop(w, ok)

\* unset: stop(), then os.remove(svc_path); a missing file raises and the
\* exception is swallowed
svc_unset(w, ok) == [svc_stop(w, ok) EXCEPT !.file = FALSE]

\* unset() statement by statement: the worker afterwards, the statements
\* entered and what is returned.  result is what stop() returned; os.remove
\* raises when the file is not there, the except clause swallows it and the
\* method ends without a return statement (None); otherwise the method
\* returns daemon_reload() and result
unset_steps(w, stopOk, reloadOk) ==
    LET result == IF is_running(w) THEN stopOk ELSE is_stopped(w) IN
    IF ~is_prepared(w)
    THEN [w |-> svc_unset(w, stopOk), steps |-> <<"stop", "remove">>,
          ret |-> "none"]
    ELSE [w |-> svc_unset(w, stopOk),
          steps |-> <<"stop", "remove", "daemon_reload">>,
          ret |-> IF reloadOk /\ result THEN "True" ELSE "False"]

\* ----------------------------------------------------- benchmark/status.py
\* the databags a handler of unit u reads and writes: its own and the
\* application's
Store(u) == [own |-> unitData[u], app |-> appData]

is_leader(u) == u = leader

\* app_status() taking a missing "status" key for a missing record
app_status_MissingIsNone(s) ==
    IF ~relation \/ s.app = Absent THEN None ELSE s.app

app_status(s) ==
    IF ~relation THEN None
    ELSE IF s.app = Absent THEN UNSET ELSE s.app

unit_status(s) ==
    IF ~relation THEN None
    ELSE IF s.own = Absent THEN UNSET ELSE s.own

\* set() writing the unit databag only
set_OwnOnly(u, s, status) ==
    IF ~relation THEN s ELSE [own |-> status, app |-> s.app]

\* set() writing the application databag without asking is_leader()
set_Both(u, s, status) ==
    IF ~relation THEN s ELSE [own |-> status, app |-> status]

set(u, s, status) ==
    IF ~relation THEN s
    ELSE [own |-> status, app |-> IF is_leader(u) THEN status ELSE s.app]

\* _has_error_happened() that does not visit the other units
_has_error_happened_NoPeers(u, s) ==
    unit_status(s) = ERROR \/ app_status(s) = ERROR

\* _has_error_happened() that also takes a peer's STOPPED record for an error
_has_error_happened_PeerStopped(u, s) ==
    \/ \E v \in Units \ {u} : unitData[v] \in {ERROR, STOPPED}
    \/ unit_status(s) = ERROR
    \/ app_status(s) = ERROR

_has_error_happened(u, s) ==
    \/ \E v \in Units \ {u} : unitData[v] = ERROR
    \/ unit_status(s) = ERROR
    \/ app_status(s) = ERROR

\* service_status() asking for the running state before the failed state
service_status_of_RunningFirst(prepared, failed, running, stopped) ==
    IF ~prepared THEN UNSET
    ELSE IF running THEN RUNNING
    ELSE IF failed THEN ERROR
    ELSE IF stopped THEN STOPPED
    ELSE PREPARED

\* service_status() as a function of what the four methods of the service
\* answer
service_status_of(prepared, failed, running, stopped) ==
    IF ~prepared THEN UNSET
    ELSE IF failed THEN ERROR
    ELSE IF running THEN RUNNING
    ELSE IF stopped THEN STOPPED
    ELSE PREPARED

service_status(w) ==
    service_status_of(is_prepared(w), is_failed(w), is_running(w),
                      is_stopped(w))

\* A DPBenchmarkExecStatus member is truthy; only None is falsy
Falsy(x) == x = None

\* check() whose non-leader branch returns without comparing
check_NoCompare(u, s, w) ==
    IF Falsy(app_status(s)) \/ Falsy(unit_status(s)) \/ planned <= 1
    THEN [ret |-> service_status(w), raised |-> <<>>, s |-> s]
    ELSE IF _has_error_happened(u, s)
    THEN [ret |-> ERROR, raised |-> <<>>, s |-> s]
    ELSE [ret |-> service_status(w), raised |-> <<>>,
          s |-> set(u, s, service_status(w))]

\* check() without the planned_units() test
check_NoPlanned(u, s, w) ==
    IF Falsy(app_status(s)) \/ Falsy(unit_status(s))
    THEN [ret |-> service_status(w), raised |-> <<>>, s |-> s]
    ELSE IF _has_error_happened(u, s)
    THEN [ret |-> ERROR, raised |-> <<>>, s |-> s]
    ELSE IF is_leader(u)
    THEN [ret |-> service_status(w), raised |-> <<>>,
          s |-> set(u, s, service_status(w))]
    ELSE LET s2 == set(u, s, service_status(w)) IN
         IF service_status(w) # app_status(s2)
         THEN [ret |-> None, raised |-> <<service_status(w), app_status(s2)>>,
               s |-> s2]
         ELSE [ret |-> service_status(w), raised |-> <<>>, s |-> s2]

\* check() whose leader branch comes before the test for ERROR
check_LeaderFirst(u, s, w) ==
    IF Falsy(app_status(s)) \/ Falsy(unit_status(s)) \/ planned <= 1
    THEN [ret |-> service_status(w), raised |-> <<>>, s |-> s]
    ELSE IF is_leader(u)
    THEN [ret |-> service_status(w), raised |-> <<>>,
          s |-> set(u, s, service_status(w))]
    ELSE IF _has_error_happened(u, s)
    THEN [ret |-> ERROR, raised |-> <<>>, s |-> s]
    ELSE LET s2 == set(u, s, service_status(w)) IN
         IF service_status(w) # app_status(s2)
         THEN [ret |-> None, raised |-> <<service_status(w), app_status(s2)>>,
               s |-> s2]
         ELSE [ret |-> service_status(w), raised |-> <<>>, s |-> s2]

\* check(): ret is the returned status (None when it raises), raised the
\* arguments of DPBenchmarkIsInWrongStateError, s the databags afterwards
check(u, s, w) ==
    IF Falsy(app_status(s)) \/ Falsy(unit_status(s)) \/ planned <= 1
    THEN [ret |-> service_status(w), raised |-> <<>>, s |-> s]
    ELSE IF _has_error_happened(u, s)
    THEN [ret |-> ERROR, raised |-> <<>>, s |-> s]
    ELSE IF is_leader(u)
    THEN [ret |-> service_status(w), raised |-> <<>>,
          s |-> set(u, s, service_status(w))]
    ELSE LET s2 == set(u, s, service_status(w)) IN
         IF service_status(w) # app_status(s2)
         THEN [ret |-> None, raised |-> <<service_status(w), app_status(s2)>>,
               s |-> s2]
         ELSE [ret |-> service_status(w), raised |-> <<>>, s |-> s2]

\* ------------------------------------------- benchmark/relation_manager.py
\* DatabaseRelationStatus values
NOT_AVAILABLE == "not_available"
AVAILABLE == "available"
CONFIGURED == "configured"

\* exceptions a call can end with
MultipleRelationsToDBError == "DPBenchmarkMultipleRelationsToDBError"
RecursionError == "RecursionError"
MissingOptionsError == "DPBenchmarkMissingOptionsError"
Exceptions == {MultipleRelationsToDBError, RecursionError, MissingOptionsError}

\* The fields handed to DPBenchmarkBaseDatabaseModel: username, password,
\* db_name and hosts are there (not None) or not; unix_socket is not given,
\* a path that does not exist, or a path that exists
SocketValues == {"none", "no_such_path", "exists"}

OptionFields ==
    [username : BOOLEAN, password : BOOLEAN, db_name : BOOLEAN,
     hosts : BOOLEAN, unix_socket : SocketValues]

\* validate_if_missing_params(): None when the model is built, else the
\* exception.  The endpoint test reads the key "host", which is only ever
\* set to "" (line 69), and unix_socket is emptied unless the path exists
validate_if_missing_params(f) ==
    IF ~f.username \/ ~f.password \/ ~f.db_name \/ ~f.hosts
    THEN MissingOptionsError
    ELSE LET host == FALSE
             unix_socket == f.unix_socket = "exists" IN
         IF ~host /\ ~unix_socket THEN MissingOptionsError ELSE None

\* or one relation: whose data cannot be read ("inactive"), whose data does
\* not make a full options object ("partial"), or whose data does ("full")
DbStates == {"none", "multi", "inactive", "partial", "full"}

\* len(self.charm.model.relations[relation_name])
RelationCount(name) ==
    IF db[name] = "none" THEN 0 ELSE IF db[name] = "multi" THEN 2 ELSE 1

_is_relation_active(name) == db[name] \in {"partial", "full"}

\* What a manager call gives back: the exception it raised (exc, None when
\* it returned) and the candidate whose options or name it returned (cand,
\* 0 when it returned None)
Returned(cand) == [exc |-> None, cand |-> cand]

Raised(exc) == [exc |-> exc, cand |-> 0]

\* get_database_options(): builds the options model or raises
get_database_options(name) ==
    IF db[name] = "full" THEN Returned(name) ELSE Raised(MissingOptionsError)

\* relation_status(name) entered with room for d frames.  It calls itself
\* for every candidate (lines 69-70); the recursion ends when the stack is
\* exhausted, and the RecursionError is caught like any other exception
\* (line 74).  OptionsLoop(i, d) is the for loop of the try block from
\* candidate i on: TRUE when it ends with an exception.
RECURSIVE relation_status(_, _), OptionsLoop(_, _)
OptionsLoop(i, d) ==
    IF i > NumCands THEN FALSE
    ELSE LET r == relation_status(i, d) IN
         IF r \in Exceptions THEN TRUE
         ELSE IF r = CONFIGURED
         THEN ~Falsy(get_database_options(i).exc)
         ELSE OptionsLoop(i + 1, d)

relation_status(name, d) ==
    IF d <= 0 THEN RecursionError
    ELSE IF RelationCount(name) > 1 THEN MultipleRelationsToDBError
    ELSE IF RelationCount(name) = 0 THEN NOT_AVAILABLE
    ELSE IF _is_relation_active(name)
    THEN IF OptionsLoop(1, d - 1) THEN AVAILABLE ELSE CONFIGURED
    ELSE AVAILABLE

\* Whether relation_status(name), entered with room for d frames, uses up
\* the stack: some nested call of itself finds no frame left.  The nested
\* calls are those of the for loop of lines 69-70, made for every candidate
\* in turn until one is CONFIGURED or a call raises.
RECURSIVE Exhausted(_, _), LoopExhausted(_, _)
LoopExhausted(i, d) ==
    IF i > NumCands THEN FALSE
    ELSE \/ Exhausted(i, d)
         \/ LET r == relation_status(i, d) IN
            IF r \in Exceptions \/ r = CONFIGURED THEN FALSE
            ELSE LoopExhausted(i + 1, d)

Exhausted(name, d) ==
    IF d <= 0 THEN TRUE
    ELSE IF RelationCount(name) # 1 THEN FALSE
    ELSE IF _is_relation_active(name) THEN LoopExhausted(1, d - 1)
    ELSE FALSE

\* DatabaseRelationManager.check(): the for loop from candidate i on, with
\* the status found so far
RECURSIVE CheckLoop(_, _, _)
CheckLoop(i, status, d) ==
    IF i > NumCands THEN status
    ELSE LET r == relation_status(i, d) IN
         IF r \in Exceptions THEN r
         ELSE IF r # NOT_AVAILABLE
         THEN IF status # NOT_AVAILABLE THEN MultipleRelationsToDBError
              ELSE CheckLoop(i + 1, r, d)
         ELSE CheckLoop(i + 1, status, d)

\* check() that settles for the first candidate that is not NOT_AVAILABLE
RECURSIVE CheckFirst(_, _)
CheckFirst(i, d) ==
    IF i > NumCands THEN NOT_AVAILABLE
    ELSE IF relation_status(i, d) # NOT_AVAILABLE THEN relation_status(i, d)
    ELSE CheckFirst(i + 1, d)

database_check_First(d) == CheckFirst(1, d - 1)

database_check(d) == CheckLoop(1, NOT_AVAILABLE, d - 1)

\* get_db_config(): the options of the first CONFIGURED candidate (named by
\* the candidate they were built from), None, or the exception
RECURSIVE DbConfigLoop(_, _)
DbConfigLoop(i, d) ==
    IF i > NumCands THEN Returned(0)
    ELSE LET r == relation_status(i, d) IN
         IF r \in Exceptions THEN Raised(r)
         ELSE IF r = CONFIGURED THEN get_database_options(i)
         ELSE DbConfigLoop(i + 1, d)

\* get_db_config() that refuses to choose between two CONFIGURED candidates
get_db_config_Conflict(d) ==
    IF \E c1, c2 \in Cands :
           /\ c1 # c2
           /\ relation_status(c1, d - 1) = CONFIGURED
           /\ relation_status(c2, d - 1) = CONFIGURED
    THEN Raised(MultipleRelationsToDBError)
    ELSE DbConfigLoop(1, d - 1)

get_db_config(d) == DbConfigLoop(1, d - 1)

\* get_execution_options(): None when get_db_config() is None, else the
\* execution model around the database options
get_execution_options(d) == get_db_config(d - 1)

RECURSIVE ChosenLoop(_, _)
ChosenLoop(i, d) ==
    IF i > NumCands THEN Returned(0)
    ELSE LET r == relation_status(i, d) IN
         IF r \in Exceptions THEN Raised(r)
         ELSE IF r \in {AVAILABLE, CONFIGURED} THEN Returned(i)
         ELSE ChosenLoop(i + 1, d)

chosen_db_type(d) == ChosenLoop(1, d - 1)

\* ------------------------------------------------ handlers: common pieces
\* The handler's databag writes reach the controller when the hook ends
Commit(u, s) ==
    /\ unitData' = [unitData EXCEPT ![u] = s.own]
    /\ appData' = s.app

NoCmds == <<>>

\* what a handler leaves behind: the result of its status check (ret,
\* raised, deferred), the databags s and the service w afterwards, how the
\* event ended (ok: set_results, fail: event.fail, raise: an exception left
\* the handler, none: a hook that returned) and the service methods called
H(c, s, w, outcome, cmds) ==
    [ret |-> c.ret, raised |-> c.raised, deferred |-> c.deferred,
     s |-> s, w |-> w, outcome |-> outcome, cmds |-> cmds]

NoCheck == [ret |-> None, raised |-> <<>>, deferred |-> FALSE]

IdleLast == [op |-> "idle", unit |-> 0, ret |-> None, raised |-> <<>>,
             deferred |-> FALSE, outcome |-> "none", cmds |-> NoCmds,
             cand |-> 0, d |-> 0, args |-> <<>>, reads |-> <<>>]

Idle == last.op = "idle"

\* a handler of unit u runs, from the start of the dispatch to its return
Apply(op, u, h) ==
    /\ Idle
    /\ Commit(u, h.s)
    /\ svc' = [svc EXCEPT ![u] = h.w]
    /\ last' = [op |-> op, unit |-> u, ret |-> h.ret, raised |-> h.raised,
                deferred |-> h.deferred, outcome |-> h.outcome,
                cmds |-> h.cmds, cand |-> 0, d |-> 0, args |-> <<>>,
                reads |-> <<>>]
    /\ UNCHANGED <<relation, planned, leader, db, proc>>

\* the systemctl results worth telling apart for a service in state w
StopOks(w) == IF is_running(w) THEN BOOLEAN ELSE {TRUE}

\* ---------------------------------------------------- templates/osb_svc.py
\* The script before systemd has started it.  pc: the statement main() is
\* at; keep_running: the module's flag; child: the benchmark process (none,
\* alive with its stdout open, closed: alive with its stdout closed, exited
\* with 0, failed: exited with another code, terminated by proc.terminate);
\* duration: args.duration; elapsed: int(time.time()) >= finish_time;
\* results: the results file exists; signalled: SIGINT or SIGTERM was
\* delivered to the script
ProcOff ==
    [pc |-> "off", command |-> "none", keep_running |-> TRUE,
     child |-> "none", duration |-> 0, elapsed |-> FALSE, results |-> FALSE,
     signalled |-> FALSE]

\* --command takes any string, --duration any integer: 0 (the default) or
\* positive
Commands == {"prepare", "run", "clean", "other"}

Durations == {0, 1}

\* main() ended: it returned, called sys.exit(0), or an exception left it
ProcDone == {"returned", "exit0", "raised"}

\* proc.poll() is None
PollIsNone == proc.child \in {"alive", "closed"}

\* -------------------------------------------------------------------- Init
Init ==
    /\ relation = FALSE
    /\ planned = 1
    /\ leader = 1
    /\ appData = Absent
    /\ unitData = [u \in Units |-> Absent]
    /\ svc = [u \in Units |-> [file |-> FALSE, sys |-> "inactive"]]
    /\ db = [c \in Cands |-> "none"]
    /\ last = IdleLast
    /\ proc = ProcOff

\* ------------------------------------- benchmark_charm.py / dpbenchmark.py
\* _on_update_status -> _set_status: the status check, unwrapped
_set_status(u, s, w) ==
    LET c == check(u, s, w) IN
    H([ret |-> c.ret, raised |-> c.raised, deferred |-> FALSE], c.s, w,
      IF c.raised # <<>> THEN "raise" ELSE "none", NoCmds)

\* __del__: the database status decides whether _set_status() runs
charm_del(u, s, w, d) ==
    LET status == database_check(d - 1) IN
    IF status = CONFIGURED THEN _set_status(u, s, w)
    ELSE H(NoCheck, s, w, "none", NoCmds)

\* the wrapper handing the worker's phase to the caller when check() raised
charm_check_Swallow(u, s, w, event) ==
    LET c == check(u, s, w) IN
    IF c.raised # <<>>
    THEN [ret |-> service_status(w), raised |-> c.raised,
          deferred |-> ~Falsy(event), s |-> c.s]
    ELSE [ret |-> c.ret, raised |-> <<>>, deferred |-> FALSE, s |-> c.s]

\* DPBenchmarkCharm.check(event): the wrapper that catches the wrong-state
\* error; event is None or the event to defer
charm_check(u, s, w, event) ==
    LET c == check(u, s, w) IN
    IF c.raised # <<>>
    THEN [ret |-> None, raised |-> c.raised, deferred |-> ~Falsy(event), s |-> c.s]
    ELSE [ret |-> c.ret, raised |-> <<>>, deferred |-> FALSE, s |-> c.s]

_on_peer_changed(u, s, w) ==
    IF /\ ~is_leader(u)
       /\ app_status(s) = PREPARED
       /\ service_status(w) \notin {PREPARED, RUNNING}
    THEN H(NoCheck, set(u, s, PREPARED), w, "none", NoCmds)
    ELSE H(NoCheck, s, w, "none", NoCmds)

\* _on_config_changed() that records STOPPED when it abandons the event
_on_config_changed_Records(u, s, w, d, stopOk, startOk) ==
    IF is_running(w)
    THEN LET w1 == svc_stop(w, stopOk)
             options == get_execution_options(d - 1) IN
         IF ~Falsy(options.exc)
         THEN H(NoCheck, s, w1, "raise", <<"stop">>)
         ELSE IF options.cand = 0
         THEN H(NoCheck, set(u, s, STOPPED), w1, "none", <<"stop">>)
         ELSE IF ~Falsy(chosen_db_type(d - 1).exc)
         THEN H(NoCheck, s, w1, "raise", <<"stop">>)
         ELSE H(NoCheck, s, svc_run(render_service_file(w1), startOk), "none",
                <<"stop", "render", "run">>)
    ELSE H(NoCheck, s, w, "none", NoCmds)

_on_config_changed(u, s, w, d, stopOk, startOk) ==
    IF is_running(w)
    THEN LET w1 == svc_stop(w, stopOk)
             options == get_execution_options(d - 1) IN
         IF ~Falsy(options.exc)
         THEN H(NoCheck, s, w1, "raise", <<"stop">>)
         ELSE IF options.cand = 0
         THEN H(NoCheck, s, w1, "none", <<"stop">>)
         ELSE IF ~Falsy(chosen_db_type(d - 1).exc)
         THEN H(NoCheck, s, w1, "raise", <<"stop">>)
         ELSE H(NoCheck, s, svc_run(render_service_file(w1), startOk), "none",
                <<"stop", "render", "run">>)
    ELSE H(NoCheck, s, w, "none", NoCmds)

\* on_run_action() without the test of the phase
on_run_action_AnyPhase(u, s, w, d, stopOk, startOk) ==
    LET c == charm_check(u, s, w, None) IN
    IF Falsy(c.ret) THEN H(c, c.s, w, "fail", NoCmds)
    ELSE LET w1 == svc_stop(w, stopOk)
             options == get_execution_options(d - 1) IN
         IF ~Falsy(options.exc)
         THEN H(c, c.s, w1, "raise", <<"stop">>)
         ELSE IF options.cand = 0
         THEN H(c, c.s, w1, "fail", <<"stop">>)
         ELSE H(c, set(u, c.s, RUNNING),
                svc_run(render_service_file(w1), startOk), "ok",
                <<"stop", "render", "run">>)

on_run_action(u, s, w, d, stopOk, startOk) ==
    LET c == charm_check(u, s, w, None) IN
    IF Falsy(c.ret) THEN H(c, c.s, w, "fail", NoCmds)
    ELSE IF c.ret # ERROR /\ c.ret \notin {PREPARED, STOPPED}
    THEN H(c, c.s, w, "fail", NoCmds)
    ELSE LET w1 == svc_stop(w, stopOk)
             options == get_execution_options(d - 1) IN
         IF ~Falsy(options.exc)
         THEN H(c, c.s, w1, "raise", <<"stop">>)
         ELSE IF options.cand = 0
         THEN H(c, c.s, w1, "fail", <<"stop">>)
         ELSE IF ~Falsy(chosen_db_type(d - 1).exc)
         THEN H(c, c.s, w1, "raise", <<"stop">>)
         ELSE H(c, set(u, c.s, RUNNING),
                svc_run(render_service_file(w1), startOk), "ok",
                <<"stop", "render", "run">>)

\* on_stop_action() without the test of the phase
on_stop_action_AnyPhase(u, s, w, stopOk) ==
    LET c == charm_check(u, s, w, None) IN
    IF Falsy(c.ret) THEN H(c, c.s, w, "fail", NoCmds)
    ELSE H(c, set(u, c.s, STOPPED), svc_stop(w, stopOk), "ok", <<"stop">>)

on_stop_action(u, s, w, stopOk) ==
    LET c == charm_check(u, s, w, None) IN
    IF Falsy(c.ret) THEN H(c, c.s, w, "fail", NoCmds)
    ELSE IF c.ret # RUNNING THEN H(c, c.s, w, "fail", NoCmds)
    ELSE H(c, set(u, c.s, STOPPED), svc_stop(w, stopOk), "ok", <<"stop">>)

\* _execute_sysbench_cmd(labels, command): "ok", or the exception it raises;
\* cmdOk is the exit status of the benchmark command
DPBenchmarkExecError == "DPBenchmarkExecError"

\* _execute_sysbench_cmd() that raises without recording ERROR
_execute_sysbench_cmd_NoRecord(u, s, d, cmdOk) ==
    LET options == get_execution_options(d - 1) IN
    IF ~Falsy(options.exc)
    THEN [exc |-> options.exc, s |-> s]
    ELSE IF options.cand = 0
    THEN [exc |-> MissingOptionsError, s |-> s]
    ELSE IF ~cmdOk
    THEN [exc |-> DPBenchmarkExecError, s |-> s]
    ELSE [exc |-> None, s |-> s]

_execute_sysbench_cmd(u, s, d, cmdOk) ==
    LET options == get_execution_options(d - 1) IN
    IF ~Falsy(options.exc)
    THEN [exc |-> options.exc, s |-> s]
    ELSE IF options.cand = 0
    THEN [exc |-> MissingOptionsError, s |-> s]
    ELSE IF ~cmdOk
    THEN [exc |-> DPBenchmarkExecError, s |-> set(u, s, ERROR)]
    ELSE [exc |-> None, s |-> s]

\* the service methods entered by a call of unset(): unset() calls stop()
\* itself before it removes the service file
unset_cmds == <<"unset", "stop">>

\* on_clean_action() without the test of the role
on_clean_action_AnyUnit(u, s, w, d, stopOk, cmdOk) ==
    LET c == charm_check(u, s, w, None) IN
    IF Falsy(c.ret) THEN H(c, c.s, w, "fail", NoCmds)
    ELSE LET stopped == c.ret = RUNNING
             w1 == IF stopped THEN svc_stop(w, stopOk) ELSE w
             cmds1 == IF stopped THEN <<"stop">> ELSE NoCmds
             e == _execute_sysbench_cmd(u, c.s, d - 1, cmdOk) IN
         IF e.exc \in {MissingOptionsError, DPBenchmarkExecError}
         THEN H(c, e.s, w1, "fail", cmds1)
         ELSE IF ~Falsy(e.exc)
         THEN H(c, e.s, w1, "raise", cmds1)
         ELSE H(c, set(u, e.s, UNSET), svc_unset(w1, stopOk), "none",
                cmds1 \o unset_cmds)

on_clean_action(u, s, w, d, stopOk, cmdOk) ==
    IF ~is_leader(u) THEN H(NoCheck, s, w, "fail", NoCmds)
    ELSE LET c == charm_check(u, s, w, None) IN
    IF Falsy(c.ret) THEN H(c, c.s, w, "fail", NoCmds)
    ELSE LET stopped == c.ret = RUNNING
             w1 == IF stopped THEN svc_stop(w, stopOk) ELSE w
             cmds1 == IF stopped THEN <<"stop">> ELSE NoCmds
             e == _execute_sysbench_cmd(u, c.s, d - 1, cmdOk) IN
         IF e.exc \in {MissingOptionsError, DPBenchmarkExecError}
         THEN H(c, e.s, w1, "fail", cmds1)
         ELSE IF ~Falsy(e.exc)
         THEN H(c, e.s, w1, "raise", cmds1)
         ELSE H(c, set(u, e.s, UNSET), svc_unset(w1, stopOk), "none",
                cmds1 \o unset_cmds)

\* SERVICE_CLS().prepare(): leaves the service prepared
svc_prepare(w) == [w EXCEPT !.file = TRUE]

on_prepare_action(u, s, w, d, cmdOk) ==
    IF ~is_leader(u) THEN H(NoCheck, s, w, "fail", NoCmds)
    ELSE LET c == charm_check(u, s, w, None) IN
    IF Falsy(c.ret) THEN H(c, c.s, w, "fail", NoCmds)
    ELSE LET failed == c.ret # UNSET
             e == _execute_sysbench_cmd(u, c.s, d - 1, cmdOk) IN
         IF e.exc \in {MissingOptionsError, DPBenchmarkExecError}
         THEN H(c, e.s, w, "fail", NoCmds)
         ELSE IF ~Falsy(e.exc)
         THEN H(c, e.s, w, "raise", NoCmds)
         ELSE H(c, set(u, e.s, PREPARED), svc_prepare(w),
                IF failed THEN "fail" ELSE "ok", <<"prepare">>)

\* ----------------------------------------------------------------- actions
UpdateStatus(u) ==
    Apply("update_status", u, _set_status(u, Store(u), svc[u]))

PeerChanged(u) ==
    /\ relation
    /\ Apply("peer_changed", u, _on_peer_changed(u, Store(u), svc[u]))

ConfigChanged(u) ==
    \E d \in Depths, stopOk \in StopOks(svc[u]), startOk \in BOOLEAN :
        Apply("config_changed", u,
              _on_config_changed(u, Store(u), svc[u], d, stopOk, startOk))

RunAction(u) ==
    \E d \in Depths, stopOk \in StopOks(svc[u]), startOk \in BOOLEAN :
        Apply("run", u, on_run_action(u, Store(u), svc[u], d, stopOk, startOk))

StopAction(u) ==
    \E stopOk \in StopOks(svc[u]) :
        Apply("stop", u, on_stop_action(u, Store(u), svc[u], stopOk))

CleanAction(u) ==
    \E d \in Depths, stopOk \in StopOks(svc[u]), cmdOk \in BOOLEAN :
        Apply("clean", u, on_clean_action(u, Store(u), svc[u], d, stopOk, cmdOk))

PrepareAction(u) ==
    \E d \in Depths, cmdOk \in BOOLEAN :
        Apply("prepare", u, on_prepare_action(u, Store(u), svc[u], d, cmdOk))

\* The dispatch ends and the charm object goes away without __del__ having
\* run
Exit ==
    /\ ~Idle
    /\ last' = IdleLast
    /\ UNCHANGED <<relation, planned, leader, appData, unitData, svc, db, proc>>

\* The dispatch ends and __del__ runs; an exception in it is dropped
Teardown ==
    /\ ~Idle
    /\ last.unit \in Units
    /\ \E d \in Depths :
           Commit(last.unit,
                  charm_del(last.unit, Store(last.unit), svc[last.unit], d).s)
    /\ last' = IdleLast
    /\ UNCHANGED <<relation, planned, leader, svc, db, proc>>

\* ------------------------------------------------------------- environment
\* Juju creates the peer relation
PeerRelationCreated ==
    /\ Idle
    /\ ~relation
    /\ relation' = TRUE
    /\ UNCHANGED <<planned, leader, appData, unitData, svc, db, last, proc>>

\* the operator scales the application
Scale(n) ==
    /\ Idle
    /\ n # planned
    /\ planned' = n
    /\ UNCHANGED <<relation, leader, appData, unitData, svc, db, last, proc>>

\* Juju elects another leader
LeaderElected(u) ==
    /\ Idle
    /\ u # leader
    /\ leader' = u
    /\ UNCHANGED <<relation, planned, appData, unitData, svc, db, last, proc>>

\* the benchmark process dies with a non-zero exit code
WorkerCrash(u) ==
    /\ Idle
    /\ svc[u].sys = "active"
    /\ svc' = [svc EXCEPT ![u].sys = "failed"]
    /\ UNCHANGED <<relation, planned, leader, appData, unitData, db, last, proc>>

\* the benchmark process ends with exit code 0
WorkerFinish(u) ==
    /\ Idle
    /\ svc[u].sys = "active"
    /\ svc' = [svc EXCEPT ![u].sys = "inactive"]
    /\ UNCHANGED <<relation, planned, leader, appData, unitData, db, last, proc>>

\* a database relation is added, removed, or its data changes
DbChanged(c, v) ==
    /\ Idle
    /\ v # db[c]
    /\ db' = [db EXCEPT ![c] = v]
    /\ UNCHANGED <<relation, planned, leader, appData, unitData, svc, last, proc>>

Next ==
    \/ \E u \in Units : UpdateStatus(u)
    \/ \E u \in Units : PeerChanged(u)
    \/ \E u \in Units : ConfigChanged(u)
    \/ \E u \in Units : RunAction(u)
    \/ \E u \in Units : StopAction(u)
    \/ \E u \in Units : CleanAction(u)
    \/ \E u \in Units : PrepareAction(u)
    \/ Exit
    \/ Teardown
    \/ PeerRelationCreated
    \/ \E n \in 1..NumUnits : Scale(n)
    \/ \E u \in Units : LeaderElected(u)
    \/ \E u \in Units : WorkerCrash(u)
    \/ \E u \in Units : WorkerFinish(u)
    \/ \E c \in CharmCands, v \in DbStates : DbChanged(c, v)

Spec == Init /\ [][Next]_vars

\* ------------------------------------------- status and options, one call
\* a call of a function with its arguments, what it returned and what was
\* read back after it
Call(op, u, args, ret, reads) ==
    last' = [IdleLast EXCEPT !.op = op, !.unit = u, !.args = args,
                             !.ret = ret, !.reads = reads]

\* service_status() over a service whose four methods answer anything
ServiceStatus ==
    /\ Idle
    /\ \E prepared, failed, running, stopped \in BOOLEAN :
           Call("service_status", 0, <<prepared, failed, running, stopped>>,
                service_status_of(prepared, failed, running, stopped), <<>>)
    /\ UNCHANGED <<relation, planned, leader, appData, unitData, svc, db, proc>>

\* building the database options from any set of fields
BuildOptions ==
    /\ Idle
    /\ \E f \in OptionFields :
           Call("build_options", 0, <<f>>, validate_if_missing_params(f), <<>>)
    /\ UNCHANGED <<relation, planned, leader, appData, unitData, svc, db, proc>>

\* unit u calls set(status) and reads unit_status() and app_status() back
SetStatus(u) ==
    /\ Idle
    /\ \E status \in DPBenchmarkExecStatus :
           LET s == set(u, Store(u), status) IN
           /\ Commit(u, s)
           /\ Call("set", u, <<status>>, None,
                   <<unit_status(s), app_status(s)>>)
    /\ UNCHANGED <<relation, planned, leader, svc, db, proc>>

\* the states a worker can be in: the service file is there or not, and
\* systemd holds the service inactive, active or failed
WorkerStates == [file : BOOLEAN, sys : SysStates]

\* run() on a worker in any state: what was read back after it is the worker
ServiceRun ==
    /\ Idle
    /\ \E w \in WorkerStates, ok \in BOOLEAN :
           Call("svc_run", 0, <<w, ok>>, None, <<svc_run(w, ok)>>)
    /\ UNCHANGED <<relation, planned, leader, appData, unitData, svc, db, proc>>

\* stop() on a worker in any state
ServiceStop ==
    /\ Idle
    /\ \E w \in WorkerStates, ok \in BOOLEAN :
           Call("svc_stop", 0, <<w, ok>>, None, <<svc_stop(w, ok)>>)
    /\ UNCHANGED <<relation, planned, leader, appData, unitData, svc, db, proc>>

\* unset() on a worker in any state: what was read back is the statements
\* it entered
ServiceUnset ==
    /\ Idle
    /\ \E w \in WorkerStates, reloadOk \in BOOLEAN :
       \E stopOk \in StopOks(w) :
           LET r == unset_steps(w, stopOk, reloadOk) IN
           Call("svc_unset", 0, <<w, stopOk, reloadOk>>, r.ret, r.steps)
    /\ UNCHANGED <<relation, planned, leader, appData, unitData, svc, db, proc>>

NextFn ==
    \/ ServiceStatus
    \/ BuildOptions
    \/ ServiceRun
    \/ ServiceStop
    \/ ServiceUnset
    \/ \E u \in Units : SetStatus(u)
    \/ PeerRelationCreated
    \/ \E u \in Units : LeaderElected(u)
    \/ Exit

SpecFn == Init /\ [][NextFn]_vars

\* ---------------------------------------- the relation manager on its own
\* A call of one of the manager's methods with room for d frames: ret is
\* the status or None it returned, or the exception it raised; cand the
\* candidate whose options or name it returned
ManagerCall(op, d, ret, cand) ==
    /\ Idle
    /\ last' = [IdleLast EXCEPT !.op = op, !.ret = ret, !.cand = cand, !.d = d,
                               !.outcome = IF ret \in Exceptions THEN "raise"
                                           ELSE "none"]
    /\ UNCHANGED <<relation, planned, leader, appData, unitData, svc, db, proc>>

RelationStatus(c) ==
    \E d \in Depths :
        ManagerCall("relation_status", d, relation_status(c, d), c)

DatabaseCheck ==
    \E d \in Depths : ManagerCall("check", d, database_check(d), 0)

GetDbConfig ==
    \E d \in Depths :
        ManagerCall("get_db_config", d, get_db_config(d).exc,
                    get_db_config(d).cand)

GetExecutionOptions ==
    \E d \in Depths :
        ManagerCall("get_execution_options", d, get_execution_options(d).exc,
                    get_execution_options(d).cand)

ChosenDbType ==
    \E d \in Depths :
        ManagerCall("chosen_db_type", d, chosen_db_type(d).exc,
                    chosen_db_type(d).cand)

NextDB ==
    \/ \E c \in Cands, v \in DbStates : DbChanged(c, v)
    \/ \E c \in Cands : RelationStatus(c)
    \/ DatabaseCheck
    \/ GetDbConfig
    \/ GetExecutionOptions
    \/ ChosenDbType
    \/ Exit

SpecDB == Init /\ [][NextDB]_vars

\* ------------------------------------------- the worker service script
\* main() from its start to the dispatch on args.command (lines 107-167):
\* prepare and clean return, an unknown command raises, run starts the
\* benchmark child and computes finish_time
main(command, duration) ==
    /\ proc.pc = "off"
    /\ proc' = IF command = "prepare"
               THEN [proc EXCEPT !.pc = "returned", !.command = command,
                                 !.duration = duration,
                                 !.keep_running = FALSE]
               ELSE IF command = "clean"
               THEN [proc EXCEPT !.pc = "returned", !.command = command,
                                 !.duration = duration]
               ELSE IF command = "run"
               THEN [proc EXCEPT !.pc = "loop", !.command = command,
                                 !.duration = duration, !.child = "alive",
                                 !.elapsed = (duration = 0)]
               ELSE [proc EXCEPT !.pc = "raised", !.command = command,
                                 !.duration = duration]
    /\ UNCHANGED <<relation, planned, leader, appData, unitData, svc, db, last>>

\* the test of the while loop (line 146)
main_while ==
    /\ proc.pc = "loop"
    /\ proc' = [proc EXCEPT !.pc = IF proc.keep_running /\ PollIsNone
                                   THEN "readline" ELSE "after"]
    /\ UNCHANGED <<relation, planned, leader, appData, unitData, svc, db, last>>

\* OSBService.run, lines 71-75: reads the child's stdout line by line until
\* readline returns "", which it does once the child has closed its stdout;
\* until then the call waits in readline or in sleep
run_readline ==
    /\ proc.pc = "readline"
    /\ proc.child # "alive"
    /\ proc' = [proc EXCEPT !.pc = "results"]
    /\ UNCHANGED <<relation, planned, leader, appData, unitData, svc, db, last>>

\* OSBService.run, lines 79-86: open() raises when the results file is not
\* there; else the loop goes over the characters of the first line, none of
\* which has four fields, and adds no metric
run_results ==
    /\ proc.pc = "results"
    /\ proc' = [proc EXCEPT !.pc = IF proc.results THEN "timecheck"
                                   ELSE "raised"]
    /\ UNCHANGED <<relation, planned, leader, appData, unitData, svc, db, last>>

\* lines 148-149
main_timecheck ==
    /\ proc.pc = "timecheck"
    /\ proc' = [proc EXCEPT !.pc = "loop",
                            !.keep_running = proc.keep_running /\ ~proc.elapsed]
    /\ UNCHANGED <<relation, planned, leader, appData, unitData, svc, db, last>>

\* after the loop (lines 151-163): with keep_running false a child that has
\* not exited is terminated and the script exits with 0; else a child that
\* did not exit with 0 makes it raise
main_after ==
    /\ proc.pc = "after"
    /\ proc' = IF ~proc.keep_running
               THEN [proc EXCEPT !.pc = "exit0",
                                 !.child = IF PollIsNone THEN "terminated"
                                           ELSE proc.child]
               ELSE IF proc.child # "exited"
               THEN [proc EXCEPT !.pc = "raised"]
               ELSE [proc EXCEPT !.pc = "returned"]
    /\ UNCHANGED <<relation, planned, leader, appData, unitData, svc, db, last>>

\* the statements of the script itself
ServiceStep ==
    \/ main_while
    \/ run_readline
    \/ run_results
    \/ main_timecheck
    \/ main_after

\* SIGINT or SIGTERM reaches the script while main() runs: the handler
\* (lines 111-113, installed at 126-127) clears keep_running and the
\* interrupted statement goes on
_exit ==
    /\ proc.pc \notin ProcDone \cup {"off"}
    /\ ~proc.signalled
    /\ proc' = [proc EXCEPT !.keep_running = FALSE, !.signalled = TRUE]
    /\ UNCHANGED <<relation, planned, leader, appData, unitData, svc, db, last>>

\* time passes finish_time
TimePasses ==
    /\ proc.pc \notin ProcDone \cup {"off"}
    /\ ~proc.elapsed
    /\ proc' = [proc EXCEPT !.elapsed = TRUE]
    /\ UNCHANGED <<relation, planned, leader, appData, unitData, svc, db, last>>

\* the benchmark child writes its results file
ChildWritesResults ==
    /\ PollIsNone
    /\ ~proc.results
    /\ proc' = [proc EXCEPT !.results = TRUE]
    /\ UNCHANGED <<relation, planned, leader, appData, unitData, svc, db, last>>

\* the benchmark child closes its stdout
ChildClosesStdout ==
    /\ proc.child = "alive"
    /\ proc' = [proc EXCEPT !.child = "closed"]
    /\ UNCHANGED <<relation, planned, leader, appData, unitData, svc, db, last>>

\* the benchmark child exits by itself, with 0 or with another code
ChildExits ==
    /\ PollIsNone
    /\ \E code \in {"exited", "failed"} : proc' = [proc EXCEPT !.child = code]
    /\ UNCHANGED <<relation, planned, leader, appData, unitData, svc, db, last>>

\* systemd starts the service again after it ended
ServiceRestarted ==
    /\ proc.pc \in ProcDone
    /\ proc' = ProcOff
    /\ UNCHANGED <<relation, planned, leader, appData, unitData, svc, db, last>>

NextSvc ==
    \/ \E command \in Commands, duration \in Durations : main(command, duration)
    \/ ServiceStep
    \/ _exit
    \/ TimePasses
    \/ ChildWritesResults
    \/ ChildClosesStdout
    \/ ChildExits
    \/ ServiceRestarted

SpecSvc == Init /\ [][NextSvc]_vars

\* ------------------------------------------------------------ properties
\* The phase a record holds; a record never written reads as UNSET
Phase(rec) == IF rec = Absent THEN UNSET ELSE rec

\* The phase unit u's worker reports
WorkerPhase(u) == service_status(svc[u])

\* No record of the peer relation holds ERROR
NoErrorRecord ==
    appData # ERROR /\ \A v \in Units : unitData[v] # ERROR

\* This step is unit u's update-status hook: one call of check()
CheckStep(u) == last'.op = "update_status" /\ last'.unit = u

\* The unit whose hook the step belongs to: the dispatched one, or, when the
\* step is the end of the dispatch, the one that was dispatched
Actor == IF Idle THEN last'.unit ELSE last.unit

\* C1: with planned size > 1, the peer relation present and no ERROR
\* record, check() on a non-coordinator writes the worker phase into its own
\* record, leaves the cluster record alone, and returns the worker phase
\* when it equals the cluster record, else raises
\* DPBenchmarkIsInWrongStateError(worker phase, cluster phase).
C1_FollowerCheck ==
    [][\A u \in Units :
         (CheckStep(u) /\ planned > 1 /\ relation /\ ~is_leader(u)
            /\ NoErrorRecord)
         => /\ unitData'[u] = WorkerPhase(u)
            /\ appData' = appData
            /\ IF WorkerPhase(u) = Phase(appData)
               THEN last'.ret = WorkerPhase(u) /\ last'.raised = <<>>
               ELSE /\ last'.ret = None
                    /\ last'.raised = <<WorkerPhase(u), Phase(appData)>>]_vars

\* A non-coordinator with a stopped worker has reconciled against a cluster
\* record saying RUNNING, and raised
C1_Witness ==
    /\ last.op = "update_status" /\ ~is_leader(last.unit)
    /\ planned > 1 /\ relation /\ NoErrorRecord
    /\ unitData[last.unit] = STOPPED
    /\ last.raised = <<STOPPED, RUNNING>>

\* C2: with planned size > 1, the peer relation present and no ERROR
\* record, check() on the coordinator writes the worker phase into its own
\* record and into the cluster record, returns it and does not raise.
C2_LeaderCheck ==
    [][\A u \in Units :
         (CheckStep(u) /\ planned > 1 /\ relation /\ is_leader(u)
            /\ NoErrorRecord)
         => /\ last'.ret = WorkerPhase(u) /\ last'.raised = <<>>
            /\ unitData'[u] = last'.ret
            /\ appData' = last'.ret]_vars

\* The coordinator has reconciled a running worker over a different cluster
\* record: own and cluster record and the result are RUNNING
C2_Witness ==
    /\ last.op = "update_status" /\ is_leader(last.unit)
    /\ planned > 1 /\ relation
    /\ last.ret = RUNNING /\ unitData[last.unit] = RUNNING
    /\ appData = RUNNING
    /\ \E v \in Units \ {last.unit} : unitData[v] \notin {RUNNING, ERROR}

\* C3: with planned size > 1, when the unit's own record, the cluster
\* record or another peer's record is ERROR, check() returns ERROR whatever
\* the worker phase is, on either role; a peer record that is missing does
\* not count as ERROR and does not make check() return ERROR.
C3_ErrorWins ==
    [][\A u \in Units :
         (CheckStep(u) /\ planned > 1 /\ relation)
         => /\ ~NoErrorRecord
                => (last'.ret = ERROR /\ last'.raised = <<>>
                      /\ unitData' = unitData /\ appData' = appData)
            /\ (NoErrorRecord /\ \E v \in Units \ {u} : unitData[v] = Absent)
                => (last'.ret = ERROR => WorkerPhase(u) = ERROR)]_vars

\* check() returned ERROR to a unit whose worker, own record and cluster
\* record are all fine: the ERROR is another peer's
C3_Witness ==
    /\ last.op = "update_status" /\ planned > 1 /\ relation
    /\ last.ret = ERROR
    /\ WorkerPhase(last.unit) # ERROR
    /\ unitData[last.unit] # ERROR /\ appData # ERROR

\* C5: the cluster record changes only in a hook of the unit that is the
\* coordinator, and a unit's own record changes only in that unit's hooks.
C5_SingleWriter ==
    [][/\ appData' # appData => is_leader(Actor)
       /\ \A v \in Units : unitData'[v] # unitData[v] => Actor = v]_vars

\* A non-coordinator's run action has set RUNNING: its own record changed,
\* the cluster record did not follow
C5_Witness ==
    /\ last.op = "run" /\ last.outcome = "ok" /\ ~is_leader(last.unit)
    /\ relation
    /\ unitData[last.unit] = RUNNING /\ appData # RUNNING

\* C6: when the planned size is at most 1 or the peer relation does not
\* exist, check() returns the worker phase, writes no record, does not raise
\* and pays no attention to ERROR records.
C6_Bypass ==
    [][\A u \in Units :
         (CheckStep(u) /\ (planned <= 1 \/ ~relation))
         => /\ last'.ret = WorkerPhase(u) /\ last'.raised = <<>>
            /\ unitData' = unitData /\ appData' = appData]_vars

\* A single planned unit with an ERROR record in sight got its worker's
\* phase back, not ERROR
C6_Witness ==
    /\ last.op = "update_status" /\ planned <= 1 /\ relation
    /\ ~NoErrorRecord
    /\ last.ret = WorkerPhase(last.unit) /\ last.ret # ERROR

\* A record that held ERROR before the step does not hold it after
ErrorErased ==
    \/ appData = ERROR /\ appData' # ERROR
    \/ \E v \in Units : unitData[v] = ERROR /\ unitData'[v] # ERROR

C7_AbsentBypass ==
    [][\A u \in Units :
         (CheckStep(u) /\ planned > 1 /\ relation
            /\ (appData = Absent \/ unitData[u] = Absent))
         => /\ last'.ret = WorkerPhase(u) /\ last'.raised = <<>>
            /\ unitData' = unitData /\ appData' = appData]_vars

\* C7: with planned size > 1 and the peer relation present, a record that
\* was never written reads as UNSET and check() reconciles as usual: it
\* returns ERROR if a record is ERROR, else writes the worker phase to the
\* unit's own record (and the cluster record on the coordinator) and on a
\* non-coordinator raises when the worker phase differs from the cluster
\* phase.
C7_AbsentReadsUnset ==
    [][\A u \in Units :
         (CheckStep(u) /\ planned > 1 /\ relation
            /\ (appData = Absent \/ unitData[u] = Absent))
         => IF ~NoErrorRecord
            THEN last'.ret = ERROR /\ last'.raised = <<>>
            ELSE /\ unitData'[u] = WorkerPhase(u)
                 /\ appData' = IF is_leader(u) THEN WorkerPhase(u) ELSE appData
                 /\ IF is_leader(u) \/ WorkerPhase(u) = Phase(appData)
                    THEN last'.ret = WorkerPhase(u) /\ last'.raised = <<>>
                    ELSE last'.raised = <<WorkerPhase(u), Phase(appData)>>]_vars

\* A non-coordinator with a stopped worker reconciled while the cluster
\* record had never been written: it wrote its own record and raised
\* against UNSET
C7_Witness ==
    /\ last.op = "update_status" /\ ~is_leader(last.unit)
    /\ planned > 1 /\ relation
    /\ appData = Absent
    /\ unitData[last.unit] = STOPPED
    /\ last.raised = <<STOPPED, UNSET>>

\* C10 as stated: two calls of check() in a row by the same unit, with
\* nothing but the first call's own writes in between, give the same result.
C10_Idempotent ==
    \A u \in Units :
        LET first == charm_check(u, Store(u), svc[u], None)
            second == charm_check(u, first.s, svc[u], None) IN
        second.ret = first.ret

\* The status the manager computes for candidate c in a loop that runs
\* with room for d frames, or the exception relation_status() ends with
StatusAt(c, d) == relation_status(c, d)

\* C8: for every assignment of statuses to the candidates, the aggregate
\* check() raises DPBenchmarkMultipleRelationsToDBError when more than one
\* candidate is not NOT_AVAILABLE, returns the status of the only such
\* candidate when there is one, and returns NOT_AVAILABLE when there is
\* none; the order of the candidates plays no part.
C8_AggregateCheck ==
    (last.op = "check" /\ \A c \in Cands : StatusAt(c, last.d - 1) \notin Exceptions)
    => LET taken == {c \in Cands : StatusAt(c, last.d - 1) # NOT_AVAILABLE} IN
       IF Cardinality(taken) > 1 THEN last.ret = MultipleRelationsToDBError
       ELSE IF taken = {} THEN last.ret = NOT_AVAILABLE
       ELSE \A c \in taken : last.ret = StatusAt(c, last.d - 1)

\* check() met two candidates with one relation each and raised
C8_Witness ==
    /\ last.op = "check"
    /\ \A c \in Cands : db[c] \in {"inactive", "partial", "full"}
    /\ last.ret = MultipleRelationsToDBError

\* The depth at which the loop of the recorded call asks for the statuses
LoopDepth == IF last.op = "get_db_config" THEN last.d - 1 ELSE last.d - 2

OptionsCall == last.op \in {"get_db_config", "get_execution_options"}

ConfiguredAt(d) == {c \in Cands : StatusAt(c, d) = CONFIGURED}

LeaderSettled ==
    \A v \in Units :
        is_leader(v) => check(v, Store(v), svc[v]).s = Store(v)

\* The values unit u's own record takes under u's own hooks when nothing
\* else happens: what it holds, what check() writes, what the store-change
\* hook writes
OwnRecords(u) == {unitData[u], WorkerPhase(u), PREPARED}

\* Every reconciliation unit u can run from here, with no operator action,
\* no worker change and no new write by the coordinator, raises WrongState
RaisesForever(u) ==
    /\ Idle /\ relation /\ planned > 1 /\ ~is_leader(u)
    /\ LeaderSettled
    /\ \A own \in OwnRecords(u) :
           check(u, [own |-> own, app |-> appData], svc[u]).raised # <<>>

\* C11 as stated: a WrongState at a follower is transient; no reachable
\* quiescent state, with the coordinator's latest cluster record delivered,
\* leaves a follower raising WrongState on every later reconciliation.
C11_WrongStateTransient == \A u \in Units : ~RaisesForever(u)

\* the entry points that reconcile: the four actions and update-status
ActionOps == {"run", "stop", "clean", "prepare"}

\* C12 as stated: on every entry point that reconciles, a WrongState ends
\* in the deferral of the triggering event, never in a failed action or an
\* exception that leaves the handler.
C12_WrongStateDeferred ==
    (last.op \in ActionOps \cup {"update_status"} /\ last.raised # <<>>)
    => (last.deferred /\ last.outcome \notin {"fail", "raise"})

\* C13: the wrapper check(event) returns None exactly when check() raised
\* WrongState and otherwise what check() returned; it defers the event it
\* was given exactly when it returns None for that reason; and an action
\* whose check raised issues no worker command and leaves in the unit's
\* record only what the reconciliation itself wrote.
C13_Wrapper ==
    /\ \A u \in Units, event \in {None, "event"} :
         LET c == check(u, Store(u), svc[u])
             r == charm_check(u, Store(u), svc[u], event) IN
         /\ (r.ret = None) <=> (c.raised # <<>>)
         /\ c.raised = <<>> => r.ret = c.ret
         /\ r.deferred <=> (c.raised # <<>> /\ event # None)
         /\ r.s = c.s
    /\ (last.op \in ActionOps /\ last.raised # <<>>)
         => /\ last.ret = None /\ last.cmds = NoCmds
            /\ unitData[last.unit] = WorkerPhase(last.unit)

\* A stop action on a non-coordinator with a running worker got None from
\* the wrapper: the worker still runs and only the reconciliation's write is
\* in the record
C13_Witness ==
    /\ last.op = "stop" /\ last.raised # <<>> /\ last.ret = None
    /\ last.cmds = NoCmds /\ last.outcome = "fail"
    /\ is_running(svc[last.unit])
    /\ unitData[last.unit] = RUNNING /\ appData # RUNNING

\* how many times service method m was entered in the handler that just ran
Calls(m) == Cardinality({i \in DOMAIN last.cmds : last.cmds[i] = m})

\* the clean action that just ran found the phase RUNNING
CleanWhileRunning == last.op = "clean" /\ last.ret = RUNNING

C15_FreshlyPrepared ==
    (/\ last.op = "update_status" /\ planned <= 1
     /\ is_prepared(svc[last.unit])
     /\ ~is_running(svc[last.unit]) /\ ~is_failed(svc[last.unit])
     /\ (relation => unitData[last.unit] = PREPARED))
    => last.ret = PREPARED

\* nothing of the charm's world changes in this step
WorldUnchanged ==
    UNCHANGED <<relation, planned, leader, appData, unitData, svc, db, proc>>

\* C16: for every answer of is_prepared, is_failed, is_running and
\* is_stopped, service_status() returns UNSET when not prepared, else ERROR
\* when failed, else RUNNING when running, else STOPPED when stopped, else
\* PREPARED; the result is one of the five phases and the call changes no
\* state.
C16_ServiceStatus ==
    [][last'.op = "service_status"
       => LET prepared == last'.args[1]
              failed == last'.args[2]
              running == last'.args[3]
              stopped == last'.args[4] IN
          /\ WorldUnchanged
          /\ last'.ret \in DPBenchmarkExecStatus
          /\ ~prepared => last'.ret = UNSET
          /\ (prepared /\ failed) => last'.ret = ERROR
          /\ (prepared /\ ~failed /\ running) => last'.ret = RUNNING
          /\ (prepared /\ ~failed /\ ~running /\ stopped)
                => last'.ret = STOPPED
          /\ (prepared /\ ~failed /\ ~running /\ ~stopped)
                => last'.ret = PREPARED]_vars

\* a service that answers yes to everything is reported ERROR
C16_Witness ==
    /\ last.op = "service_status"
    /\ last.args = <<TRUE, TRUE, TRUE, TRUE>>
    /\ last.ret = ERROR

\* C17 as stated: the options are built exactly when username, password
\* and target name are there and exactly one of the host list and the
\* unix-socket path is given; every other combination ends with
\* DPBenchmarkMissingOptionsError.
C17_OptionsIff ==
    last.op = "build_options"
    => LET f == last.args[1]
           socket == f.unix_socket # "none" IN
       IF f.username /\ f.password /\ f.db_name /\ (f.hosts # socket)
       THEN last.ret = None
       ELSE last.ret = MissingOptionsError

\* C18: with the peer relation in place, for every phase P a set(P) by the
\* coordinator followed by a read gives P from unit_status() and from
\* app_status(); a set(P) by a non-coordinator gives P from unit_status()
\* and leaves app_status() as it was.
C18_RoundTrip ==
    [][(last'.op = "set" /\ relation)
       => /\ last'.reads[1] = last'.args[1]
          /\ unitData'[last'.unit] = last'.args[1]
          /\ IF is_leader(last'.unit)
             THEN last'.reads[2] = last'.args[1] /\ appData' = last'.args[1]
             ELSE last'.reads[2] = Phase(appData) /\ appData' = appData]_vars

\* a non-coordinator wrote RUNNING, read it back from its own record and
\* read the cluster record's different phase
C18_Witness ==
    /\ last.op = "set" /\ relation /\ ~is_leader(last.unit)
    /\ last.args = <<RUNNING>>
    /\ last.reads = <<RUNNING, STOPPED>>

\* the candidates whose status, in a loop with room for d frames, is
\* AVAILABLE or CONFIGURED
QualifiedAt(d) == {c \in Cands : StatusAt(c, d) \in {AVAILABLE, CONFIGURED}}

\* C19 as stated: whenever every candidate has a status, chosen_db_type()
\* returns None exactly when no candidate is AVAILABLE or CONFIGURED, else
\* the name of a candidate that is, and that candidate is the one whose
\* options get_execution_options() builds in the same handler.
C19_ChosenMatchesOptions ==
    (/\ last.op = "chosen_db_type"
     /\ \A c \in Cands : StatusAt(c, last.d - 1) \notin Exceptions)
    => LET options == get_execution_options(last.d) IN
       /\ (last.ret = None /\ last.cand = 0) <=> QualifiedAt(last.d - 1) = {}
       /\ QualifiedAt(last.d - 1) # {} => last.cand \in QualifiedAt(last.d - 1)
       /\ options.cand # 0 => options.cand = last.cand

\* C20 as stated: relation_status(name) returns NOT_AVAILABLE when the
\* candidate has no relation, CONFIGURED exactly when the options can be
\* built from the candidate's data, AVAILABLE when the relation is there but
\* the options cannot be built, and raises nothing but the
\* multiple-relations error, which it raises for more than one relation of
\* that name.
C20_RelationStatus ==
    last.op = "relation_status"
    => LET data == db[last.cand] IN
       /\ data = "none" => last.ret = NOT_AVAILABLE
       /\ data = "full" <=> last.ret = CONFIGURED
       /\ data \in {"inactive", "partial"} => last.ret = AVAILABLE
       /\ data = "multi" <=> last.ret = MultipleRelationsToDBError
       /\ last.ret \in Exceptions => last.ret = MultipleRelationsToDBError

\* This step is the handler of action op on unit u
ActionStep(op, u) == last'.op = op /\ last'.unit = u

\* The handler that ran in this step went past its tests of the role and of
\* the phase: it entered a service method or ended without failing
Accepted == last'.cmds # NoCmds \/ last'.outcome \in {"ok", "none"}

\* No record changes its phase in this step
RecordsUnchanged ==
    /\ \A v \in Units : Phase(unitData'[v]) = Phase(unitData[v])
    /\ Phase(appData') = Phase(appData)

\* The records change in this step by nothing but the reconciliation of
\* unit u: its own record (and the cluster record on the coordinator) holds
\* what it held or the worker phase found, every other record what it held
OnlyReconciled(u) ==
    /\ unitData'[u] \in {unitData[u], WorkerPhase(u)}
    /\ \A v \in Units \ {u} : unitData'[v] = unitData[v]
    /\ appData' \in {appData} \cup
                    (IF is_leader(u) THEN {WorkerPhase(u)} ELSE {})

\* The data of the registered database relations make the options: one
\* candidate has one relation with complete data, the others have none
OptionsAvailable ==
    \E c \in Cands :
        db[c] = "full" /\ \A c2 \in Cands \ {c} : db[c2] = "none"

\* C21 as stated: run goes past its tests only when the reconciled phase is
\* PREPARED, STOPPED or ERROR; in UNSET or RUNNING it fails, enters no
\* service method and no record changes; when it is accepted and the options
\* are available the worker is started and the own record (and the cluster
\* record on the coordinator) of the peer relation becomes RUNNING.
C21_RunGuard ==
    [][\A u \in Units : ActionStep("run", u)
         => /\ Accepted => last'.ret \in {PREPARED, STOPPED, ERROR}
            /\ last'.ret \in {UNSET, RUNNING}
                 => /\ last'.outcome = "fail" /\ last'.cmds = NoCmds
                    /\ svc' = svc /\ RecordsUnchanged
            /\ (last'.ret \in {PREPARED, STOPPED, ERROR} /\ OptionsAvailable)
                 => /\ last'.outcome = "ok"
                    /\ relation => Phase(unitData'[u]) = RUNNING
                    /\ (relation /\ is_leader(u))
                         => Phase(appData') = RUNNING]_vars

\* C21: run goes past its tests only when the reconciled phase is PREPARED,
\* STOPPED or ERROR; in every other case (UNSET, RUNNING, or a wrong state)
\* it fails, enters no service method, leaves the worker alone and changes
\* no record beyond what the reconciliation wrote.  When it is accepted and
\* the options are available it stops, renders and starts the service (the
\* worker ends running, or failed when systemd could not start it) and,
\* where the peer relation exists, writes RUNNING to the own record, and to
\* the cluster record on the coordinator only.
C21_RunAccepted ==
    [][\A u \in Units : ActionStep("run", u)
         => /\ Accepted => last'.ret \in {PREPARED, STOPPED, ERROR}
            /\ last'.ret \notin {PREPARED, STOPPED, ERROR}
                 => /\ last'.outcome = "fail" /\ last'.cmds = NoCmds
                    /\ svc' = svc /\ OnlyReconciled(u)
            /\ (last'.ret \in {PREPARED, STOPPED, ERROR} /\ OptionsAvailable)
                 => /\ last'.outcome = "ok"
                    /\ last'.cmds = <<"stop", "render", "run">>
                    /\ is_running(svc'[u]) \/ is_failed(svc'[u])
                    /\ relation
                         => /\ unitData'[u] = RUNNING
                            /\ appData' = IF is_leader(u) THEN RUNNING
                                          ELSE appData]_vars

\* The coordinator of a cluster of two ran a stopped worker: the worker
\* runs and both its own and the cluster record say RUNNING
C21_Witness ==
    /\ last.op = "run" /\ last.ret = STOPPED /\ last.outcome = "ok"
    /\ is_leader(last.unit) /\ relation /\ planned > 1
    /\ is_running(svc[last.unit])
    /\ unitData[last.unit] = RUNNING /\ appData = RUNNING


\* C22 as stated: stop goes past its test only when the reconciled phase is
\* RUNNING; in every other phase it fails and the worker and all records
\* are as they were; when accepted stop() is entered and the own record (and
\* the cluster record on the coordinator) of the peer relation becomes
\* STOPPED.
C22_StopGuard ==
    [][\A u \in Units : ActionStep("stop", u)
         => /\ Accepted => last'.ret = RUNNING
            /\ last'.ret # RUNNING
                 => /\ last'.outcome = "fail"
                    /\ svc' = svc /\ RecordsUnchanged
            /\ last'.ret = RUNNING
                 => /\ last'.outcome = "ok"
                    /\ last'.cmds = <<"stop">>
                    /\ relation => Phase(unitData'[u]) = STOPPED
                    /\ (relation /\ is_leader(u))
                         => Phase(appData') = STOPPED]_vars

\* C22: stop goes past its test only when the reconciled phase is RUNNING;
\* in every other case it fails, enters no service method, leaves the
\* worker alone and changes no record beyond what the reconciliation wrote.
\* When accepted it enters stop() once (the worker ends stopped, or still
\* running when systemd could not stop it) and, where the peer relation
\* exists, writes STOPPED to the own record, and to the cluster record on the
\* coordinator only.
C22_StopAccepted ==
    [][\A u \in Units : ActionStep("stop", u)
         => /\ Accepted => last'.ret = RUNNING
            /\ last'.ret # RUNNING
                 => /\ last'.outcome = "fail" /\ last'.cmds = NoCmds
                    /\ svc' = svc /\ OnlyReconciled(u)
            /\ last'.ret = RUNNING
                 => /\ last'.outcome = "ok" /\ last'.cmds = <<"stop">>
                    /\ is_running(svc[u])
                    /\ svc'[u] \in {svc[u], [svc[u] EXCEPT !.sys = "inactive"]}
                    /\ relation
                         => /\ unitData'[u] = STOPPED
                            /\ appData' = IF is_leader(u) THEN STOPPED
                                          ELSE appData]_vars

\* A non-coordinator stopped its running worker: its record says STOPPED,
\* the cluster record still RUNNING
C22_Witness ==
    /\ last.op = "stop" /\ last.ret = RUNNING /\ last.outcome = "ok"
    /\ ~is_leader(last.unit) /\ relation /\ planned > 1
    /\ is_stopped(svc[last.unit])
    /\ unitData[last.unit] = STOPPED /\ appData = RUNNING


\* The step writes phase P into a record that did not hold it
Writes(P) ==
    \/ appData' = P /\ appData # P
    \/ \E v \in Units : unitData'[v] = P /\ unitData[v] # P

\* C23 as stated: prepare on a non-coordinator, or in a reconciled phase
\* other than UNSET, fails without the Worker Handle's prepare() being
\* entered and without PREPARED being written; a prepare that succeeds
\* leaves the coordinator's own record and the cluster record of the peer
\* relation PREPARED.
C23_PrepareGuard ==
    [][\A u \in Units : ActionStep("prepare", u)
         => /\ (~is_leader(u) \/ last'.ret # UNSET)
                 => /\ last'.outcome = "fail"
                    /\ last'.cmds = NoCmds
                    /\ ~Writes(PREPARED)
            /\ (last'.outcome = "ok" /\ relation)
                 => /\ is_leader(u)
                    /\ unitData'[u] = PREPARED /\ appData' = PREPARED]_vars


\* _execute_sysbench_cmd() of unit u can find the options missing
OptionsMissing(u) ==
    \E d \in Depths :
        _execute_sysbench_cmd(u, Store(u), d - 1, TRUE).exc = MissingOptionsError

\* C24 as stated: clean goes past its tests only on the coordinator and only
\* when the reconciled phase is UNSET, RUNNING or ERROR; on a
\* non-coordinator, or in PREPARED or STOPPED, it fails and neither the
\* worker nor a record changes; a clean that succeeds leaves the worker
\* unprepared and the own and the cluster record of the peer relation UNSET.
C24_CleanGuard ==
    [][\A u \in Units : ActionStep("clean", u)
         => /\ Accepted
                 => is_leader(u) /\ last'.ret \in {UNSET, RUNNING, ERROR}
            /\ (~is_leader(u) \/ last'.ret \in {PREPARED, STOPPED})
                 => /\ last'.outcome = "fail"
                    /\ svc' = svc /\ RecordsUnchanged
            /\ last'.outcome = "none"
                 => /\ ~is_prepared(svc'[u])
                    /\ relation
                         => unitData'[u] = UNSET /\ appData' = UNSET]_vars

\* C24: clean goes past its tests only on the coordinator, and there in
\* every reconciled phase: on a non-coordinator it fails before it
\* reconciles, and neither the worker nor a record changes; on the
\* coordinator the reconciliation never ends in a wrong state and the
\* action fails only when the options are missing or the clean command
\* failed (ERROR is written).  A clean that succeeds has unset the worker
\* (it ends unprepared) and, where the peer relation exists, left the own
\* and the cluster record UNSET.
C24_CleanAccepted ==
    [][\A u \in Units : ActionStep("clean", u)
         => /\ Accepted => is_leader(u)
            /\ ~is_leader(u)
                 => /\ last'.outcome = "fail" /\ last'.cmds = NoCmds
                    /\ svc' = svc
                    /\ unitData' = unitData /\ appData' = appData
            /\ is_leader(u)
                 => /\ last'.ret \in DPBenchmarkExecStatus
                    /\ (relation /\ last'.outcome = "fail")
                         => \/ OptionsMissing(u)
                            \/ unitData'[u] = ERROR /\ appData' = ERROR
            /\ last'.outcome = "none"
                 => /\ Calls("unset")' = 1
                    /\ ~is_prepared(svc'[u])
                    /\ relation
                         => unitData'[u] = UNSET /\ appData' = UNSET]_vars

\* The coordinator of a cluster of two cleaned while the reconciled phase was
\* STOPPED: the worker is unprepared and the records say UNSET
C24_Witness ==
    /\ last.op = "clean" /\ last.ret = STOPPED /\ last.outcome = "none"
    /\ is_leader(last.unit) /\ relation /\ planned > 1
    /\ ~is_prepared(svc[last.unit])
    /\ unitData[last.unit] = UNSET /\ appData = UNSET


\* C25 as stated: the store-change hook of a non-coordinator that sees the
\* cluster record PREPARED while its worker is not prepared writes PREPARED
\* to its own record; on the coordinator, with another cluster record, or
\* with a worker that is prepared, its own record stays as it is; the
\* cluster record, the other records and the worker never change.
C25_PeerHook ==
    [][\A u \in Units : ActionStep("peer_changed", u)
         => /\ svc' = svc /\ appData' = appData
            /\ \A v \in Units \ {u} : unitData'[v] = unitData[v]
            /\ IF /\ ~is_leader(u)
                  /\ Phase(appData) = PREPARED
                  /\ ~is_prepared(svc[u])
               THEN unitData'[u] = PREPARED
               ELSE unitData'[u] = unitData[u]]_vars


\* The store-change hook has marked non-coordinator u of a cluster of more
\* than one: the cluster record and u's own record say PREPARED and u's
\* worker was never prepared
MarkedPrepared(u) ==
    /\ relation /\ planned > 1 /\ ~is_leader(u)
    /\ appData = PREPARED /\ unitData[u] = PREPARED
    /\ ~is_prepared(svc[u])

\* C26 as stated: a run action on a non-coordinator that the store-change
\* hook has marked PREPARED, with the options available and no ERROR
\* record, is not stopped by a wrong state of its reconciliation and not
\* rejected as unprepared: it starts the worker.
C26_RunAfterMark ==
    [][\A u \in Units :
         (ActionStep("run", u) /\ MarkedPrepared(u) /\ OptionsAvailable
            /\ NoErrorRecord)
         => /\ last'.raised = <<>>
            /\ last'.outcome = "ok"
            /\ Calls("run")' = 1]_vars


\* C27 as stated: a record holding ERROR stops holding it only in an action
\* of the operator (run, stop, clean, prepare); no update-status
\* reconciliation, end of dispatch or store-change hook takes a record out
\* of ERROR.
C27_NoAutomaticExit ==
    [][ErrorErased => last'.op \in ActionOps]_vars


\* The coordinator's clean has just gone through in a cluster of more than
\* one, no worker is in the failed state and the worker of every other
\* unit is unprepared
CleanDone ==
    /\ last.op = "clean" /\ last.outcome = "none"
    /\ relation /\ planned > 1
    /\ \A u \in Units : ~is_failed(svc[u])
    /\ \A u \in Units \ {last.unit} : ~is_prepared(svc[u])

\* Nothing is left to converge: no reconciliation and no store-change hook
\* of any unit would change a record
Converged ==
    \A u \in Units :
        /\ check(u, Store(u), svc[u]).s = Store(u)
        /\ _on_peer_changed(u, Store(u), svc[u]).s = Store(u)

\* C28 as stated: once the coordinator's clean has gone through and the
\* reconciliations and store-change hooks have nothing left to change, with
\* no worker failed, no record holds ERROR and check() returns UNSET on
\* every unit.
C28_CleanClearsError ==
    (CleanDone /\ Converged)
    => /\ NoErrorRecord
       /\ \A u \in Units : check(u, Store(u), svc[u]).ret = UNSET


\* The options are there for a command that unit u's handler, started with
\* room for d frames, executes; the command exits with a non-zero status
CommandFails(u, d) ==
    _execute_sysbench_cmd(u, Store(u), d - 1, FALSE).exc = DPBenchmarkExecError

NoBackend == \A c \in Cands : db[c] = "none"

\* C30 as stated: with no backend CONFIGURED a run and a clean fail, leave
\* the worker as it was (not stopped, not started, not unset) and write no
\* phase (the records change by nothing but the reconciliation that opens
\* the action).
C30_MissingOptions ==
    [][\A u \in Units :
         ((ActionStep("run", u) \/ ActionStep("clean", u)) /\ NoBackend)
         => /\ last'.outcome = "fail"
            /\ svc' = svc
            /\ OnlyReconciled(u)]_vars


\* C31 as stated: a run action writes RUNNING only when the worker was
\* started, and a stop action writes STOPPED only when the worker was
\* stopped: right after a run that wrote RUNNING the service is running,
\* and right after a stop that wrote STOPPED it is not running.
C31_NoSpeculativePhase ==
    /\ (last.op = "run" /\ last.outcome = "ok"
          /\ unitData[last.unit] = RUNNING)
         => is_running(svc[last.unit])
    /\ (last.op = "stop" /\ last.outcome = "ok"
          /\ unitData[last.unit] = STOPPED)
         => ~is_running(svc[last.unit])

\* What check() on unit u can read besides the other peers' records, and of
\* those only which of them hold ERROR
CheckInputs(u) ==
    [own |-> unitData[u], app |-> appData, worker |-> svc[u],
     leads |-> is_leader(u), planned |-> planned, relation |-> relation,
     errors |-> {v \in Units : unitData[v] = ERROR}]

\* C32: check() depends on the other peers' records only through the ERROR
\* test: across any step that leaves unit u's own record, the cluster record,
\* its worker, its role, the planned size and the set of records equal to
\* ERROR as they were, whatever else the peers' records became, check() on u
\* returns (or raises) the same and writes the same.
C32_PeersOnlyThroughError ==
    [][\A u \in Units :
         CheckInputs(u)' = CheckInputs(u)
         => check(u, Store(u), svc[u])' = check(u, Store(u), svc[u])]_vars

\* A peer has just written a phase other than ERROR into its own record
\* while another unit's check() goes on to reconcile (cluster of two, no
\* ERROR record)
C32_Witness ==
    /\ relation /\ planned > 1 /\ NoErrorRecord
    /\ last.op = "update_status" /\ ~is_leader(last.unit)
    /\ unitData[last.unit] = STOPPED
    /\ \E u \in Units \ {last.unit} :
           /\ unitData[u] # Absent
           /\ check(u, Store(u), svc[u]).ret = WorkerPhase(u)

\* The documented state machine of DPBenchmarkExecStatus: the cycle, ERROR
\* entered from RUNNING only; what follows ERROR is not documented, so any
\* phase may
Cycle ==
    {<<UNSET, PREPARED>>, <<PREPARED, RUNNING>>, <<RUNNING, STOPPED>>,
     <<STOPPED, UNSET>>, <<RUNNING, ERROR>>}

Follows(a, b) == a = b \/ a = ERROR \/ <<a, b>> \in Cycle

\* C33 as stated: every record (each unit's own and the cluster record)
\* only ever moves along UNSET -> PREPARED -> RUNNING -> STOPPED -> UNSET, and
\* becomes ERROR only when it was RUNNING.
C33_PhaseCycle ==
    [][/\ \A u \in Units : Follows(Phase(unitData[u]), Phase(unitData'[u]))
       /\ Follows(Phase(appData), Phase(appData'))]_vars

\* C34 as stated: unset() never throws, enters every cleanup step (stop,
\* removal of the service file, daemon reload) whatever the earlier steps
\* did, and answers with a boolean.
C34_BestEffortUnset ==
    last.op = "svc_unset"
    => /\ last.reads = <<"stop", "remove", "daemon_reload">>
       /\ last.ret \in {"True", "False"}

\* Unit u leads and did not at construction (unit 1 did): it was promoted
Promoted(u) == is_leader(u) /\ u # 1

\* C35 as stated: the check() of a promoted coordinator leaves the cluster
\* record equal to its own worker phase (cluster of more than one unit, peer
\* relation present).
C35_PromotedOverwrites ==
    [][\A u \in Units :
         (CheckStep(u) /\ Promoted(u) /\ relation /\ planned > 1)
         => Phase(appData') = WorkerPhase(u)]_vars

\* C35, amended: the election itself leaves every record as it is; the
\* coordinator's check(), the new one's first included, writes its worker
\* phase into the cluster record when the relation is present, the planned
\* size exceeds 1 and no record holds ERROR, so a cluster record equal to its
\* worker phase is kept; with an ERROR record the cluster record stays as it
\* was; and no step of a unit that is not the coordinator changes the
\* cluster record.
C35_RoleTransfer ==
    [][/\ leader' # leader => (appData' = appData /\ unitData' = unitData)
       /\ \A u \in Units :
            (CheckStep(u) /\ is_leader(u) /\ relation /\ planned > 1)
            => /\ NoErrorRecord => appData' = WorkerPhase(u)
               /\ ~NoErrorRecord => appData' = appData
               /\ (NoErrorRecord /\ WorkerPhase(u) = Phase(appData))
                    => Phase(appData') = Phase(appData)
       /\ appData' # appData => is_leader(Actor)]_vars

\* Unit 2, promoted after the construction, has reconciled as coordinator
\* and overwritten the cluster record with its worker phase, which is not
\* the phase the demoted unit 1 recorded
C35_Witness ==
    /\ Promoted(2) /\ relation /\ planned > 1 /\ NoErrorRecord
    /\ last.op = "update_status" /\ last.unit = 2
    /\ appData = WorkerPhase(2) /\ appData # UNSET
    /\ Phase(unitData[1]) # appData

\* C36: with a planned size above 1 and the peer relation present, whenever
\* some record (the caller's own, the cluster's or another peer's) holds
\* ERROR, check() on any unit returns ERROR, raises nothing and leaves the
\* caller's own record and the cluster record exactly as they were.
C36_ErrorReadOnly ==
    \A u \in Units :
        (relation /\ planned > 1 /\ ~NoErrorRecord)
        => LET c == check(u, Store(u), svc[u]) IN
           /\ c.ret = ERROR
           /\ c.raised = <<>>
           /\ c.s = Store(u)

\* An update-status hook in a cluster of two has returned ERROR on account
\* of an ERROR record while the unit's worker reports a phase that is not
\* the one its own record holds, and not ERROR
C36_Witness ==
    /\ relation /\ planned > 1 /\ ~NoErrorRecord
    /\ last.op = "update_status" /\ last.ret = ERROR
    /\ WorkerPhase(last.unit) # ERROR
    /\ WorkerPhase(last.unit) # Phase(unitData[last.unit])
    /\ WorkerPhase(last.unit) # Phase(appData)

C38_BoundedRecursion ==
    last.op = "relation_status" => ~Exhausted(last.cand, last.d)

\* C40: in every worker state is_running, is_failed and is_stopped each
\* imply is_prepared; is_stopped holds exactly when the worker is prepared,
\* not running and not failed, so running and stopped never hold together;
\* run() changes the service (restarts it) only when it was stopped or
\* failed, and then it ends active or failed; stop() changes it only when it
\* was running, and then it ends inactive if systemd stopped it.
C40_WorkerHandle ==
    /\ \A w \in WorkerStates :
         /\ (is_running(w) \/ is_failed(w) \/ is_stopped(w)) => is_prepared(w)
         /\ is_stopped(w) <=> (is_prepared(w) /\ ~is_running(w) /\ ~is_failed(w))
         /\ ~(is_running(w) /\ is_stopped(w))
    /\ last.op = "svc_run"
         => LET w == last.args[1]
                ok == last.args[2]
                after == last.reads[1] IN
            IF is_stopped(w) \/ is_failed(w)
            THEN after = [w EXCEPT !.sys = IF ok THEN "active" ELSE "failed"]
            ELSE after = w
    /\ last.op = "svc_stop"
         => LET w == last.args[1]
                ok == last.args[2]
                after == last.reads[1] IN
            IF is_running(w) /\ ok
            THEN after = [w EXCEPT !.sys = "inactive"]
            ELSE after = w

\* run() was called on a stopped worker and the service is running after it
C40_Witness ==
    /\ last.op = "svc_run"
    /\ is_stopped(last.args[1])
    /\ is_running(last.reads[1])

\* main() is in its run loop (lines 146-149)
InRunLoop == proc.pc \in {"loop", "readline", "results", "timecheck"}

\* C39 as stated: the run loop ends once a stop was requested by SIGINT or
\* SIGTERM or the configured duration has elapsed, whatever the child does:
\* in the loop the script then always has a statement to go on with; a
\* script that ended after a signal has called sys.exit(0) and left no
\* child behind; and a script that ended with the child exited non-zero,
\* no signal received and the duration not elapsed, has raised.
C39_RunLoopEnds ==
    /\ (InRunLoop /\ (proc.signalled \/ (proc.duration > 0 /\ proc.elapsed)))
         => ENABLED ServiceStep
    /\ (proc.command = "run" /\ proc.pc \in ProcDone /\ proc.signalled)
         => (proc.pc = "exit0" /\ ~PollIsNone)
    /\ (proc.command = "run" /\ proc.pc \in ProcDone /\ proc.child = "failed"
          /\ ~proc.signalled /\ ~proc.elapsed)
         => proc.pc = "raised"

============================================================================
